---- MODULE Spec2Model ----
(***************************************************************************)
(* topsecret-env: loadEnvFile (src/lib/loadEnvFile.js) and validateValue   *)
(* (src/lib/validateValue.js).                                             *)
(*                                                                         *)
(* Text is a sequence of one-character strings.  A JavaScript value is a   *)
(* record tagged by t: "undefined", "null", "string", "number", "boolean", *)
(* "array", "object", "function", "date".  A number is the decimal         *)
(* m / 10^e, normalised (e = 0 exactly for the whole numbers), or NaN.     *)
(***************************************************************************)
EXTENDS Integers, Sequences, FiniteSets, TLC

VARIABLES pc, raw, schema, config, ops, last, vArgs, vOut

vars == <<pc, raw, schema, config, ops, last, vArgs, vOut>>

----------------------------------------------------------------------------
(* Bounds of the model *)

\* lines of a file, where only the line loop is followed
MaxLines == 3
\* lines of a file that is loaded under a schema, and rules of the schema
MaxSchemaLines == 2
MaxRules == 2
\* lines of a file whose config a caller uses, and the caller's writes
MaxCallerLines == 2
MaxOps == 2
\* the greatest min or max of a rule handed to validateValue alone
MaxBound == 3

----------------------------------------------------------------------------
(* Text *)

Digits == {"0", "1", "2", "3", "4", "5", "6", "7", "8", "9"}

\* String.prototype.trim strips these (of the characters the model uses)
IsWs(c) == c \in {" ", "\t", "\r", "\n"}

DigitVal(c) ==
  CASE c = "0" -> 0 [] c = "1" -> 1 [] c = "2" -> 2 [] c = "3" -> 3
    [] c = "4" -> 4 [] c = "5" -> 5 [] c = "6" -> 6 [] c = "7" -> 7
    [] c = "8" -> 8 [] c = "9" -> 9

DigitChar(d) ==
  CASE d = 0 -> "0" [] d = 1 -> "1" [] d = 2 -> "2" [] d = 3 -> "3"
    [] d = 4 -> "4" [] d = 5 -> "5" [] d = 6 -> "6" [] d = 7 -> "7"
    [] d = 8 -> "8" [] d = 9 -> "9"

RECURSIVE TrimStart(_)
TrimStart(s) ==
  IF s # <<>> /\ IsWs(Head(s)) THEN TrimStart(Tail(s)) ELSE s

RECURSIVE TrimEnd(_)
TrimEnd(s) ==
  IF s # <<>> /\ IsWs(s[Len(s)]) THEN TrimEnd(SubSeq(s, 1, Len(s) - 1)) ELSE s

\* String.prototype.trim
Trim(s) == TrimEnd(TrimStart(s))

\* the least index of c in s, 0 when there is none
IndexOf(s, c) ==
  IF \E i \in 1..Len(s) : s[i] = c
  THEN CHOOSE i \in 1..Len(s) : s[i] = c /\ \A j \in 1..(i - 1) : s[j] # c
  ELSE 0

RECURSIVE DigitsVal(_)
DigitsVal(s) ==
  IF s = <<>> THEN 0 ELSE DigitsVal(SubSeq(s, 1, Len(s) - 1)) * 10 + DigitVal(s[Len(s)])

RECURSIVE NatText(_)
NatText(n) == IF n < 10 THEN <<DigitChar(n)>> ELSE NatText(n \div 10) \o <<DigitChar(n % 10)>>

RECURSIVE Pow10(_)
Pow10(e) == IF e = 0 THEN 1 ELSE 10 * Pow10(e - 1)

LowerChar(c) ==
  CASE c = "A" -> "a" [] c = "B" -> "b" [] c = "E" -> "e" [] c = "F" -> "f"
    [] c = "L" -> "l" [] c = "R" -> "r" [] c = "S" -> "s" [] c = "T" -> "t"
    [] c = "U" -> "u" [] c = "O" -> "o" [] c = "Z" -> "z" [] c = "N" -> "n"
    [] OTHER -> c

UpperChar(c) ==
  CASE c = "a" -> "A" [] c = "b" -> "B" [] c = "e" -> "E" [] c = "f" -> "F"
    [] c = "l" -> "L" [] c = "r" -> "R" [] c = "s" -> "S" [] c = "t" -> "T"
    [] c = "u" -> "U" [] c = "o" -> "O" [] c = "z" -> "Z" [] c = "n" -> "N"
    [] OTHER -> c

\* String.prototype.toLowerCase / toUpperCase
ToLowerCase(s) == [i \in 1..Len(s) |-> LowerChar(s[i])]
ToUpperCase(s) == [i \in 1..Len(s) |-> UpperChar(s[i])]

----------------------------------------------------------------------------
(* Values *)

Undefined == [t |-> "undefined"]
Null == [t |-> "null"]
Str(s) == [t |-> "string", s |-> s]
Bool(b) == [t |-> "boolean", b |-> b]
Arr(a) == [t |-> "array", a |-> a]
\* p: the own properties in order, each <<key text, value>>
Obj(p) == [t |-> "object", p |-> p]
\* a member inherited from Object.prototype (constructor, toString, ...)
Fn == [t |-> "function"]
NaN == [t |-> "number", nan |-> TRUE, m |-> 0, e |-> 0]
\* a valid Date; ms stands for its time value
DateOf(ms) == [t |-> "date", ms |-> ms]

RECURSIVE Normal(_, _)
Normal(m, e) ==
  IF e > 0 /\ m % 10 = 0 THEN Normal(m \div 10, e - 1)
  ELSE [t |-> "number", nan |-> FALSE, m |-> m, e |-> e]

\* the decimal m / 10^e
Dec(m, e) == Normal(m, e)
Num(n) == Dec(n, 0)

\* typeof
TypeOf(v) ==
  CASE v.t \in {"array", "object", "null", "date"} -> "object"
    [] OTHER -> v.t

\* Number.isInteger
NumberIsInteger(v) == v.t = "number" /\ ~v.nan /\ v.e = 0
\* Array.isArray
IsArray(v) == v.t = "array"

\* a < b on two numbers; false when either is NaN
NumLess(a, b) ==
  /\ ~a.nan
  /\ ~b.nan
  /\ a.m * Pow10(b.e) < b.m * Pow10(a.e)

----------------------------------------------------------------------------
(* Conversions of the language *)

\* the text of a decimal literal: an optional sign, digits, and an optional
\* "." with digits ("5", "-5", "1.5", ".5", "5."); no exponent, hex or Infinity
\* form is in the alphabets of the model
IsDecimalLiteral(s) ==
  LET u == IF s # <<>> /\ Head(s) \in {"-", "+"} THEN Tail(s) ELSE s
      d == IndexOf(u, ".")
      ip == IF d = 0 THEN u ELSE SubSeq(u, 1, d - 1)
      fp == IF d = 0 THEN <<>> ELSE SubSeq(u, d + 1, Len(u))
  IN  /\ ip \o fp # <<>>
      /\ \A i \in 1..Len(ip) : ip[i] \in Digits
      /\ \A i \in 1..Len(fp) : fp[i] \in Digits

DecimalValue(s) ==
  LET neg == s # <<>> /\ Head(s) = "-"
      u == IF s # <<>> /\ Head(s) \in {"-", "+"} THEN Tail(s) ELSE s
      d == IndexOf(u, ".")
      ip == IF d = 0 THEN u ELSE SubSeq(u, 1, d - 1)
      fp == IF d = 0 THEN <<>> ELSE SubSeq(u, d + 1, Len(u))
      m == DigitsVal(ip \o fp)
  IN  Dec(IF neg THEN 0 - m ELSE m, Len(fp))

\* StringToNumber: Number(text)
StringToNumber(s) ==
  LET u == Trim(s)
  IN  IF u = <<>> THEN Num(0)
      ELSE IF IsDecimalLiteral(u) THEN DecimalValue(u)
      ELSE NaN

\* Number.prototype.toString of m / 10^e
NumberToString(v) ==
  IF v.nan THEN <<"N", "a", "N">>
  ELSE LET a == IF v.m < 0 THEN 0 - v.m ELSE v.m
           ip == NatText(a \div Pow10(v.e))
           fr == NatText(Pow10(v.e) + (a % Pow10(v.e)))
           fp == IF v.e = 0 THEN <<>> ELSE <<".">> \o Tail(fr)
       IN  (IF v.m < 0 THEN <<"-">> ELSE <<>>) \o ip \o fp

\* what Function.prototype.toString gives for a built-in: text that is no
\* number, date, time or boolean literal
FunctionText == <<"f", "u", "n", "c", "t", "i", "o", "n">>
ObjectText == <<"[", "o", "b", "j", "e", "c", "t", " ", "O", "b", "j", "e", "c", "t", "]">>

\* ToString of a primitive
PrimToString(v) ==
  CASE v.t = "string" -> v.s
    [] v.t = "number" -> NumberToString(v)
    [] v.t = "boolean" -> IF v.b THEN <<"t", "r", "u", "e">> ELSE <<"f", "a", "l", "s", "e">>
    [] v.t = "null" -> <<"n", "u", "l", "l">>
    [] v.t = "undefined" -> <<"u", "n", "d", "e", "f", "i", "n", "e", "d">>

\* Array.prototype.join(",") over elements that are primitives
RECURSIVE JoinElems(_)
JoinElems(a) ==
  IF a = <<>> THEN <<>>
  ELSE LET h == IF Head(a).t \in {"null", "undefined"} THEN <<>> ELSE PrimToString(Head(a))
       IN  IF Len(a) = 1 THEN h ELSE h \o <<",">> \o JoinElems(Tail(a))

\* whether an object parsed from JSON has the own property k (whose value is
\* then never callable)
HasOwn(v, k) == v.t = "object" /\ \E i \in 1..Len(v.p) : v.p[i][1] = k

ToStringKey == <<"t", "o", "S", "t", "r", "i", "n", "g">>

\* v.toString(): [threw, s]
CallToString(v) ==
  CASE v.t \in {"string", "number", "boolean"} -> [threw |-> FALSE, s |-> PrimToString(v)]
    [] v.t = "array" -> [threw |-> FALSE, s |-> JoinElems(v.a)]
    [] v.t = "function" -> [threw |-> FALSE, s |-> FunctionText]
    [] v.t = "object" ->
         IF HasOwn(v, ToStringKey) THEN [threw |-> TRUE, s |-> <<>>]
         ELSE [threw |-> FALSE, s |-> ObjectText]
    [] OTHER -> [threw |-> TRUE, s |-> <<>>]

\* ToPrimitive: [threw, v].  An array or object answers valueOf with itself, so
\* either hint ends at toString; an own, non-callable toString leaves no
\* method that returns a primitive, a TypeError.
ToPrimitive(v) ==
  CASE v.t \in {"array", "function"} -> [threw |-> FALSE, v |-> Str(CallToString(v).s)]
    [] v.t = "object" ->
         IF HasOwn(v, ToStringKey) THEN [threw |-> TRUE, v |-> Undefined]
         ELSE [threw |-> FALSE, v |-> Str(ObjectText)]
    [] OTHER -> [threw |-> FALSE, v |-> v]

PrimText(p) ==
  IF p.threw THEN [threw |-> TRUE, s |-> <<>>]
  ELSE [threw |-> FALSE, s |-> PrimToString(p.v)]

\* ToString: [threw, s]
ToStringJS(v) == PrimText(ToPrimitive(v))

\* ToNumber of a primitive
PrimToNumber(v) ==
  CASE v.t = "number" -> v
    [] v.t = "string" -> StringToNumber(v.s)
    [] v.t = "boolean" -> IF v.b THEN Num(1) ELSE Num(0)
    [] v.t = "null" -> Num(0)
    [] OTHER -> NaN

\* the comparison once the left side is a primitive p, or has thrown
LessPrim(p, b) ==
  IF p.threw THEN "throw"
  ELSE IF NumLess(PrimToNumber(p.v), b) THEN "true" ELSE "false"

GreaterPrim(p, b) ==
  IF p.threw THEN "throw"
  ELSE IF NumLess(b, PrimToNumber(p.v)) THEN "true" ELSE "false"

\* a < b where b is a number: "true", "false" or "throw"
Less(a, b) == LessPrim(ToPrimitive(a), b)

\* a > b where b is a number
Greater(a, b) == GreaterPrim(ToPrimitive(a), b)

\* /^\d{2}:\d{2}$/ on a text
IsTimeText(s) ==
  /\ Len(s) = 5
  /\ s[3] = ":"
  /\ \A i \in {1, 2, 4, 5} : s[i] \in Digits

\* Date.parse on a text: the ISO form YYYY-MM-DD with month 01..12 and day
\* 01..31 is a date; the other texts of the model are none in any engine
DateParse(s) ==
  IF /\ Len(s) = 10
     /\ s[5] = "-"
     /\ s[8] = "-"
     /\ \A i \in {1, 2, 3, 4, 6, 7, 9, 10} : s[i] \in Digits
     /\ DigitsVal(SubSeq(s, 6, 7)) \in 1..12
     /\ DigitsVal(SubSeq(s, 9, 10)) \in 1..31
  THEN [valid |-> TRUE, ms |-> Str(s)]
  ELSE [valid |-> FALSE, ms |-> Undefined]

DateOfParse(d) == [threw |-> FALSE, valid |-> d.valid, ms |-> d.ms]

DateOfNumber(n) == [threw |-> FALSE, valid |-> ~n.nan, ms |-> n]

DateOfPrim(p) ==
  IF p.threw THEN [threw |-> TRUE, valid |-> FALSE, ms |-> Undefined]
  ELSE IF p.v.t = "string" THEN DateOfParse(DateParse(p.v.s))
  ELSE DateOfNumber(PrimToNumber(p.v))

\* new Date(v): [threw, valid, ms]; ms stands for the time value
NewDate(v) == DateOfPrim(ToPrimitive(v))

----------------------------------------------------------------------------
(* The collaborators of the line parser *)

\* isJsonLike: the trimmed text begins with "{" or "["
isJsonLike(text) ==
  LET u == Trim(text) IN u # <<>> /\ Head(u) \in {"{", "["}

IsIntegerLiteral(s) ==
  LET u == IF s # <<>> /\ Head(s) = "-" THEN Tail(s) ELSE s
  IN  u # <<>> /\ \A i \in 1..Len(u) : u[i] \in Digits

IsFloatLiteral(s) ==
  LET u == IF s # <<>> /\ Head(s) = "-" THEN Tail(s) ELSE s
      d == IndexOf(u, ".")
  IN  /\ d > 1
      /\ d < Len(u)
      /\ \A i \in (1..Len(u)) \ {d} : u[i] \in Digits

\* coercePrimitive: an integer literal, else a float literal, else true/false
\* in any case, else the text itself
coercePrimitive(text) ==
  IF IsIntegerLiteral(text) THEN DecimalValue(text)
  ELSE IF IsFloatLiteral(text) THEN DecimalValue(text)
  ELSE IF ToLowerCase(text) = <<"t", "r", "u", "e">> THEN Bool(TRUE)
  ELSE IF ToLowerCase(text) = <<"f", "a", "l", "s", "e">> THEN Bool(FALSE)
  ELSE Str(text)

\* JSON.parse on the structured texts of the model; every other text that
\* begins with "{" or "[" in the model is a syntax error
JSONParse(text) ==
  CASE text = <<"[", "]">> -> [ok |-> TRUE, v |-> Arr(<<>>)]
    [] text = <<"[", "2", "0", "]">> -> [ok |-> TRUE, v |-> Arr(<<Num(20)>>)]
    [] text = <<"[", "\"", "1", "2", ":", "3", "0", "\"", "]">> -> [ok |-> TRUE, v |-> Arr(<<Str(<<"1", "2", ":", "3", "0">>)>>)]
    [] text = <<"[", "\"", "t", "r", "u", "e", "\"", "]">> -> [ok |-> TRUE, v |-> Arr(<<Str(<<"t", "r", "u", "e">>)>>)]
    [] text = <<"{", "}">> -> [ok |-> TRUE, v |-> Obj(<<>>)]
    [] text = <<"{", "\"", "a", "\"", ":", "1", "}">> -> [ok |-> TRUE, v |-> Obj(<< <<<<"a">>, Num(1)>> >>)]
    [] text = <<"{", "\"", "t", "o", "S", "t", "r", "i", "n", "g", "\"", ":", "1", "}">> -> [ok |-> TRUE, v |-> Obj(<< <<ToStringKey, Num(1)>> >>)]
    [] OTHER -> [ok |-> FALSE, v |-> Undefined]

----------------------------------------------------------------------------
(* Objects used as maps: the own properties in insertion order, each         *)
(* [k, v]; a read of a key that is no own property goes to Object.prototype *)

\* the members of Object.prototype the model names
PrototypeKeys == {<<"c", "o", "n", "s", "t", "r", "u", "c", "t", "o", "r">>, ToStringKey}

HasKey(m, k) == \E i \in 1..Len(m) : m[i].k = k

KeyIndex(m, k) == CHOOSE i \in 1..Len(m) : m[i].k = k

\* m[k]
Get(m, k) ==
  IF HasKey(m, k) THEN m[KeyIndex(m, k)].v
  ELSE IF k \in PrototypeKeys THEN Fn
  ELSE Undefined

\* m[k] = v: an own key keeps its place, a new one goes last
Put(m, k, v) ==
  IF HasKey(m, k) THEN [m EXCEPT ![KeyIndex(m, k)] = [k |-> k, v |-> v]]
  ELSE Append(m, [k |-> k, v |-> v])

\* an integer index: the canonical text of a natural number
IsArrayIndex(k) ==
  /\ k # <<>>
  /\ \A i \in 1..Len(k) : k[i] \in Digits
  /\ (Len(k) = 1 \/ Head(k) # "0")

RECURSIVE SortIndices(_)
SortIndices(ks) ==
  IF ks = <<>> THEN <<>>
  ELSE LET i == CHOOSE i \in 1..Len(ks) :
                  \A j \in 1..Len(ks) : DigitsVal(ks[i]) <= DigitsVal(ks[j])
       IN  <<ks[i]>> \o SortIndices(SubSeq(ks, 1, i - 1) \o SubSeq(ks, i + 1, Len(ks)))

\* the own keys in the order of enumeration: the integer indices ascending,
\* then the other keys in insertion order
OwnKeys(m) ==
  LET ks == [i \in 1..Len(m) |-> m[i].k]
  IN  SortIndices(SelectSeq(ks, IsArrayIndex))
        \o SelectSeq(ks, LAMBDA k : ~IsArrayIndex(k))

----------------------------------------------------------------------------
(* loadEnvFile: the line loop *)

\* raw.split(/\r?\n/)
RECURSIVE SplitLines(_)
SplitLines(text) ==
  LET n == IndexOf(text, "\n")
  IN  IF n = 0 THEN <<text>>
      ELSE LET cut == IF n > 1 /\ text[n - 1] = "\r" THEN n - 2 ELSE n - 1
           IN  <<SubSeq(text, 1, cut)>> \o SplitLines(SubSeq(text, n + 1, Len(text)))

\* const [name, ...rest] = trimmed.split("="): the text before the first "="
SplitName(trimmed) ==
  LET n == IndexOf(trimmed, "=")
  IN  IF n = 0 THEN trimmed ELSE SubSeq(trimmed, 1, n - 1)

\* rest.join("="): the text after the first "=", empty when there is no "="
JoinRest(trimmed) ==
  LET n == IndexOf(trimmed, "=")
  IN  IF n = 0 THEN <<>> ELSE SubSeq(trimmed, n + 1, Len(trimmed))

\* whether the callback returns before it stores anything
SkipsLine(line) ==
  LET trimmed == Trim(line)
  IN  \/ trimmed = <<>>
      \/ Head(trimmed) = "#"
      \/ SplitName(trimmed) = <<>>

LineKey(line) == Trim(SplitName(Trim(line)))

\* JSON.parse in the try, the text kept when it throws
ParsedOr(value, json) == IF json.ok THEN json.v ELSE Str(value)

\* the typed value of a value text
TypedValue(value) ==
  IF isJsonLike(value) THEN ParsedOr(value, JSONParse(value))
  ELSE coercePrimitive(value)

\* the typed value of the line
LineValue(line) == TypedValue(Trim(JoinRest(Trim(line))))

\* a data descriptor
DataDescriptor(value, enumerable) ==
  [t |-> "object", value |-> value, writable |-> FALSE,
   enumerable |-> enumerable, configurable |-> FALSE]

\* rawValues[key] = value; descriptors[key] = {...}
Store(acc, key, value) ==
  [rawValues |-> Put(acc.rawValues, key, value),
   descriptors |-> Put(acc.descriptors, key, DataDescriptor(value, TRUE))]

\* one call of the forEach callback on [rawValues, descriptors]
ParseLine(acc, line) ==
  IF SkipsLine(line) THEN acc ELSE Store(acc, LineKey(line), LineValue(line))

RECURSIVE ParseLines(_, _)
ParseLines(acc, lines) ==
  IF lines = <<>> THEN acc
  ELSE ParseLines(ParseLine(acc, Head(lines)), Tail(lines))

\* rawValues and descriptors after lines.forEach
Parsed(text) ==
  ParseLines([rawValues |-> <<>>, descriptors |-> <<>>], SplitLines(text))

----------------------------------------------------------------------------
(* validateValue *)

\* a schema rule; name and type are texts, min and max Undefined or a number
Rule(name, type, required, min, max, lowercase, uppercase) ==
  [name |-> name, type |-> type, required |-> required, min |-> min,
   max |-> max, lowercase |-> lowercase, uppercase |-> uppercase]

Quoted(key) == <<"\"">> \o key \o <<"\"">>

\* the messages
MissingMsg(key) == Str(<<"M", "i", "s", "s", "i", "n", "g", " ", "r", "e", "q", "u", "i", "r", "e", "d", " ", "v", "a", "l", "u", "e", " ", "f", "o", "r", " ">> \o Quoted(key))
IntegerMsg(key) == Str(Quoted(key) \o <<" ", "m", "u", "s", "t", " ", "b", "e", " ", "a", "n", " ", "i", "n", "t", "e", "g", "e", "r">>)
FloatMsg(key) == Str(Quoted(key) \o <<" ", "m", "u", "s", "t", " ", "b", "e", " ", "a", " ", "f", "l", "o", "a", "t">>)
MinMsg(key, min) == Str(Quoted(key) \o <<" ", "m", "u", "s", "t", " ", "b", "e", " ", ">", "=", " ">> \o NumberToString(min))
MaxMsg(key, max) == Str(Quoted(key) \o <<" ", "m", "u", "s", "t", " ", "b", "e", " ", "<", "=", " ">> \o NumberToString(max))
BooleanMsg(key) == Str(Quoted(key) \o <<" ", "m", "u", "s", "t", " ", "b", "e", " ", "a", " ", "b", "o", "o", "l", "e", "a", "n">>)
StringMsg(key) == Str(Quoted(key) \o <<" ", "m", "u", "s", "t", " ", "b", "e", " ", "a", " ", "s", "t", "r", "i", "n", "g">>)
LowercaseMsg(key) == Str(Quoted(key) \o <<" ", "m", "u", "s", "t", " ", "b", "e", " ", "l", "o", "w", "e", "r", "c", "a", "s", "e">>)
UppercaseMsg(key) == Str(Quoted(key) \o <<" ", "m", "u", "s", "t", " ", "b", "e", " ", "u", "p", "p", "e", "r", "c", "a", "s", "e">>)
MinLenMsg(key, min) ==
  Str(Quoted(key) \o <<" ", "m", "u", "s", "t", " ", "b", "e", " ", "a", "t", " ", "l", "e", "a", "s", "t", " ">> \o NumberToString(min) \o <<" ", "c", "h", "a", "r", "a", "c", "t", "e", "r", "s">>)
MaxLenMsg(key, max) ==
  Str(Quoted(key) \o <<" ", "m", "u", "s", "t", " ", "b", "e", " ", "a", "t", " ", "m", "o", "s", "t", " ">> \o NumberToString(max) \o <<" ", "c", "h", "a", "r", "a", "c", "t", "e", "r", "s">>)
DateMsg(key) == Str(Quoted(key) \o <<" ", "m", "u", "s", "t", " ", "b", "e", " ", "a", " ", "v", "a", "l", "i", "d", " ", "d", "a", "t", "e">>)
TimeFormatMsg(key) == Str(Quoted(key) \o <<" ", "m", "u", "s", "t", " ", "b", "e", " ", "i", "n", " ", "H", "H", ":", "m", "m", " ", "f", "o", "r", "m", "a", "t">>)
TimeRangeMsg(key) == Str(Quoted(key) \o <<" ", "h", "a", "s", " ", "i", "n", "v", "a", "l", "i", "d", " ", "h", "o", "u", "r", " ", "o", "r", " ", "m", "i", "n", "u", "t", "e">>)
ArrayMsg(key) == Str(Quoted(key) \o <<" ", "m", "u", "s", "t", " ", "b", "e", " ", "a", "n", " ", "a", "r", "r", "a", "y">>)
ObjectMsg(key) == Str(Quoted(key) \o <<" ", "m", "u", "s", "t", " ", "b", "e", " ", "a", "n", " ", "o", "b", "j", "e", "c", "t">>)
UnknownTypeMsg(key, type) == Str(<<"U", "n", "k", "n", "o", "w", "n", " ", "t", "y", "p", "e", " ">> \o Quoted(type) \o <<" ", "f", "o", "r", " ">> \o Quoted(key))

\* value === undefined || value === null || value === ""
IsMissing(value) == value.t \in {"undefined", "null"} \/ value = Str(<<>>)

\* x != null
IsSet(x) == x.t \notin {"undefined", "null"}

Returned(errors) == [threw |-> FALSE, errors |-> errors]
Thrown == [threw |-> TRUE, errors |-> <<>>]

\* the two bound checks that the integer and the float case share; the
\* comparison converts the value to a number, which can throw
\* BoundErrors as it would be if a type error ended the case
BoundErrorsAfterTypeOnly(key, rule, errors, lo, hi) ==
  IF lo = "throw" \/ hi = "throw" THEN Thrown
  ELSE IF errors # <<>> THEN Returned(errors)
  ELSE Returned((IF lo = "true" THEN <<MinMsg(key, rule.min)>> ELSE <<>>)
                \o (IF hi = "true" THEN <<MaxMsg(key, rule.max)>> ELSE <<>>))

\* what the three ifs of the case push, lo and hi being the comparisons
BoundErrors(key, rule, errors, lo, hi) ==
  IF lo = "throw" \/ hi = "throw" THEN Thrown
  ELSE Returned(errors
                \o (IF lo = "true" THEN <<MinMsg(key, rule.min)>> ELSE <<>>)
                \o (IF hi = "true" THEN <<MaxMsg(key, rule.max)>> ELSE <<>>))

BoundChecks(key, value, rule, errors) ==
  BoundErrors(key, rule, errors,
              IF IsSet(rule.min) THEN Less(value, rule.min) ELSE "false",
              IF IsSet(rule.max) THEN Greater(value, rule.max) ELSE "false")

IntegerCase(key, value, rule) ==
  BoundChecks(key, value, rule,
              IF TypeOf(value) # "number" \/ ~NumberIsInteger(value)
              THEN <<IntegerMsg(key)>> ELSE <<>>)

FloatCase(key, value, rule) ==
  BoundChecks(key, value, rule,
              IF TypeOf(value) # "number" THEN <<FloatMsg(key)>> ELSE <<>>)

BooleanCase(key, value, rule) ==
  Returned(IF TypeOf(value) # "boolean" THEN <<BooleanMsg(key)>> ELSE <<>>)

StringCase(key, value, rule) ==
  IF TypeOf(value) # "string" THEN Returned(<<StringMsg(key)>>)
  ELSE Returned(
         (IF rule.lowercase /\ value.s # ToLowerCase(value.s)
          THEN <<LowercaseMsg(key)>> ELSE <<>>)
         \o (IF rule.uppercase /\ value.s # ToUpperCase(value.s)
             THEN <<UppercaseMsg(key)>> ELSE <<>>)
         \o (IF IsSet(rule.min) /\ NumLess(Num(Len(value.s)), rule.min)
             THEN <<MinLenMsg(key, rule.min)>> ELSE <<>>)
         \o (IF IsSet(rule.max) /\ NumLess(rule.max, Num(Len(value.s)))
             THEN <<MaxLenMsg(key, rule.max)>> ELSE <<>>))

DateErrors(key, date) ==
  IF date.threw THEN Thrown
  ELSE Returned(IF ~date.valid THEN <<DateMsg(key)>> ELSE <<>>)

DateCase(key, value, rule) == DateErrors(key, NewDate(value))

\* the regular expression tests the text of the value; value.split exists
\* on a string only
TimeRange(key, h, m) ==
  Returned(IF h < 0 \/ h > 23 \/ m < 0 \/ m > 59 THEN <<TimeRangeMsg(key)>> ELSE <<>>)

TimeErrors(key, value, text) ==
  IF text.threw THEN Thrown
  ELSE IF ~IsTimeText(text.s) THEN Returned(<<TimeFormatMsg(key)>>)
  ELSE IF TypeOf(value) # "string" THEN Thrown
  ELSE TimeRange(key, DigitsVal(SubSeq(value.s, 1, 2)), DigitsVal(SubSeq(value.s, 4, 5)))

TimeCase(key, value, rule) == TimeErrors(key, value, ToStringJS(value))

ArrayCase(key, value, rule) ==
  Returned(IF ~IsArray(value) THEN <<ArrayMsg(key)>> ELSE <<>>)

ObjectCase(key, value, rule) ==
  Returned(IF TypeOf(value) # "object" \/ IsArray(value)
           THEN <<ObjectMsg(key)>> ELSE <<>>)

\* validateValue(key, value, rule): [threw, errors]
validateValue(key, value, rule) ==
  IF rule.required /\ IsMissing(value) THEN Returned(<<MissingMsg(key)>>)
  ELSE IF IsMissing(value) THEN Returned(<<>>)
  ELSE CASE rule.type = <<"i", "n", "t", "e", "g", "e", "r">> -> IntegerCase(key, value, rule)
         [] rule.type = <<"f", "l", "o", "a", "t">> -> FloatCase(key, value, rule)
         [] rule.type = <<"b", "o", "o", "l", "e", "a", "n">> -> BooleanCase(key, value, rule)
         [] rule.type = <<"s", "t", "r", "i", "n", "g">> -> StringCase(key, value, rule)
         [] rule.type = <<"d", "a", "t", "e">> -> DateCase(key, value, rule)
         [] rule.type = <<"t", "i", "m", "e">> -> TimeCase(key, value, rule)
         [] rule.type = <<"a", "r", "r", "a", "y">> -> ArrayCase(key, value, rule)
         [] rule.type = <<"o", "b", "j", "e", "c", "t">> -> ObjectCase(key, value, rule)
         [] OTHER -> Returned(<<UnknownTypeMsg(key, rule.type)>>)

----------------------------------------------------------------------------
(* loadEnvFile: the validation pass and the construction of the config *)

\* one turn of the loop over the schema, on [threw, errors, descriptors]:
\* a rule without errors writes descriptors[key].value, a TypeError when
\* descriptors[key] is undefined
\* descriptors[key].value = value, d being descriptors[key]
SetValue(st, key, value, d) ==
  IF d.t = "undefined" THEN [st EXCEPT !.threw = TRUE]
  ELSE IF d.t = "function" THEN st
  ELSE [st EXCEPT !.descriptors = Put(st.descriptors, key, [d EXCEPT !.value = value])]

\* Collect as it would be if the errors of a rule went in front
CollectInFront(st, key, value, valErrors) ==
  IF st.threw \/ valErrors.threw THEN [st EXCEPT !.threw = TRUE]
  ELSE IF valErrors.errors # <<>>
    THEN [st EXCEPT !.errors = valErrors.errors \o st.errors]
  ELSE SetValue(st, key, value, Get(st.descriptors, key))

\* the body of the loop once validateValue has answered
Collect(st, key, value, valErrors) ==
  IF st.threw \/ valErrors.threw THEN [st EXCEPT !.threw = TRUE]
  ELSE IF valErrors.errors # <<>>
    THEN [st EXCEPT !.errors = st.errors \o valErrors.errors]
  ELSE SetValue(st, key, value, Get(st.descriptors, key))

ValidateValueOf(st, rule, value) ==
  Collect(st, rule.name, value, validateValue(rule.name, value, rule))

ValidateRule(st, rule, rawValues) ==
  ValidateValueOf(st, rule, Get(rawValues, rule.name))

RECURSIVE ValidateRules(_, _, _)
ValidateRules(st, rules, rawValues) ==
  IF rules = <<>> THEN st
  ELSE ValidateRules(ValidateRule(st, Head(rules), rawValues), Tail(rules), rawValues)

\* [threw, errors, descriptors] after the loop over the schema
Validated(parsed, rules) ==
  ValidateRules([threw |-> FALSE, errors |-> <<>>, descriptors |-> parsed.descriptors],
                rules, parsed.rawValues)

ErrorsKey == <<"e", "r", "r", "o", "r", "s">>
HasErrorsKey == <<"h", "a", "s", "E", "r", "r", "o", "r", "s">>

\* descriptors.errors = {...}; descriptors.hasErrors = {...}
WithErrors(descriptors, errors) ==
  Put(Put(descriptors, ErrorsKey, DataDescriptor(Arr(errors), FALSE)),
      HasErrorsKey, DataDescriptor(Bool(errors # <<>>), FALSE))

\* Object.defineProperties({}, descriptors): the own properties of the new
\* object, defined in the order the keys of descriptors enumerate
DefineOnFresh(descriptors) ==
  LET ks == OwnKeys(descriptors)
  IN  [i \in 1..Len(ks) |-> [k |-> ks[i], v |-> Get(descriptors, ks[i])]]

\* the accessors, in the order of the second Object.defineProperties
AccessorNames ==
  <<<<"g", "e", "t">>, <<"g", "e", "t", "S", "t", "r", "i", "n", "g">>, <<"g", "e", "t", "I", "n", "t", "e", "g", "e", "r">>, <<"g", "e", "t", "F", "l", "o", "a", "t">>, <<"g", "e", "t", "B", "o", "o", "l", "e", "a", "n">>,
    <<"g", "e", "t", "D", "a", "t", "e">>, <<"g", "e", "t", "T", "i", "m", "e">>, <<"g", "e", "t", "A", "r", "r", "a", "y">>, <<"g", "e", "t", "O", "b", "j", "e", "c", "t">>>>

AccessorDescriptor ==
  [t |-> "object", value |-> Fn, writable |-> FALSE,
   enumerable |-> FALSE, configurable |-> FALSE]

\* Object.defineProperties(config, {get: ..., ...}): [threw, props].  A name
\* that is already an own, non-configurable property with another value or
\* enumerability cannot be redefined, a TypeError.
RECURSIVE DefineAccessors(_, _)
DefineAccessors(props, names) ==
  IF names = <<>> THEN [threw |-> FALSE, props |-> props]
  ELSE IF HasKey(props, Head(names)) THEN [threw |-> TRUE, props |-> props]
  ELSE DefineAccessors(Append(props, [k |-> Head(names), v |-> AccessorDescriptor]),
                       Tail(names))


\* loadEnvFile on the text of the file: the config it returns (props, its own
\* properties), or the throw; rawValues is the mapping the line loop resolved
Outcome(parsed, checked, built) ==
  IF checked.threw \/ built.threw
  THEN [status |-> "threw", props |-> <<>>, rawValues |-> parsed.rawValues]
  ELSE [status |-> "returned", props |-> built.props, rawValues |-> parsed.rawValues]

\* the two Object.defineProperties
Build(parsed, checked) ==
  Outcome(parsed, checked,
          DefineAccessors(DefineOnFresh(WithErrors(checked.descriptors, checked.errors)),
                          AccessorNames))

LoadParsed(parsed, rules) == Build(parsed, Validated(parsed, rules))

loadEnvFile(text, rules) == LoadParsed(Parsed(text), rules)

----------------------------------------------------------------------------
(* The config in the hands of the caller *)

\* config[key]
Read(props, key) ==
  IF HasKey(props, key) THEN Get(props, key).value ELSE Get(<<>>, key)

\* Object.keys(config)
EnumerableKeys(props) ==
  SelectSeq(OwnKeys(props), LAMBDA k : Get(props, k).enumerable)

\* config[key] = value: refused on a non-writable own property (silently, or
\* with a TypeError in strict code); a new key is added, the object being
\* extensible
AssignProp(props, key, value) ==
  IF HasKey(props, key)
  THEN IF Get(props, key).writable
       THEN Put(props, key, [Get(props, key) EXCEPT !.value = value])
       ELSE props
  ELSE Append(props, [k |-> key,
                      v |-> [t |-> "object", value |-> value, writable |-> TRUE,
                             enumerable |-> TRUE, configurable |-> TRUE]])

\* delete config[key]: refused on a non-configurable own property
DeleteProp(props, key) ==
  IF HasKey(props, key) /\ Get(props, key).configurable
  THEN SelectSeq(props, LAMBDA e : e.k # key)
  ELSE props

\* what a call gives: a value, or a throw
Gave(v) == [threw |-> FALSE, v |-> v]
Threw == [threw |-> TRUE, v |-> Undefined]

get(props, key, fallback) ==
  LET val == Read(props, key)
  IN  Gave(IF IsSet(val) THEN val ELSE fallback)

getString(props, key, fallback) ==
  LET val == Read(props, key)
  IN  Gave(IF TypeOf(val) = "string" THEN val ELSE fallback)

\* val?.toString().toLowerCase() compared with "true" and "false"
BooleanOf(val, fallback) ==
  IF ~IsSet(val) THEN Gave(fallback)
  ELSE IF CallToString(val).threw THEN Threw
  ELSE IF ToLowerCase(CallToString(val).s) = <<"t", "r", "u", "e">> THEN Gave(Bool(TRUE))
  ELSE IF ToLowerCase(CallToString(val).s) = <<"f", "a", "l", "s", "e">> THEN Gave(Bool(FALSE))
  ELSE Gave(fallback)

getBoolean(props, key, fallback) == BooleanOf(Read(props, key), fallback)

DateOr(date, fallback) ==
  IF date.threw THEN Threw
  ELSE Gave(IF ~date.valid THEN fallback ELSE DateOf(date.ms))

getDate(props, key, fallback) == DateOr(NewDate(Read(props, key)), fallback)

\* today at hours:minutes, or the fallback
TimeOr(val, hours, minutes, fallback) ==
  Gave(IF hours < 0 \/ hours > 23 \/ minutes < 0 \/ minutes > 59
       THEN fallback ELSE DateOf(val))

TimeOf(val, text, fallback) ==
  IF text.threw THEN Threw
  ELSE IF ~IsTimeText(text.s) THEN Gave(fallback)
  ELSE IF TypeOf(val) # "string" THEN Threw
  ELSE TimeOr(val, DigitsVal(SubSeq(val.s, 1, 2)), DigitsVal(SubSeq(val.s, 4, 5)), fallback)

TimeOfValue(val, fallback) == TimeOf(val, ToStringJS(val), fallback)

getTime(props, key, fallback) == TimeOfValue(Read(props, key), fallback)

getArray(props, key, fallback) ==
  LET val == Read(props, key)
  IN  Gave(IF IsArray(val) THEN val ELSE fallback)

getObject(props, key, fallback) ==
  LET val == Read(props, key)
  IN  Gave(IF IsSet(val) /\ TypeOf(val) = "object" /\ ~IsArray(val) THEN val ELSE fallback)

----------------------------------------------------------------------------
(* Inputs *)

SeqsUpTo(S, n) == UNION {[1..k -> S] : k \in 0..n}

\* the text of a file of these lines
RECURSIVE JoinLines(_)
JoinLines(ls) ==
  IF ls = <<>> THEN <<>>
  ELSE IF Len(ls) = 1 THEN Head(ls)
  ELSE Head(ls) \o <<"\n">> \o JoinLines(Tail(ls))

Files(pool, n) == {JoinLines(ls) : ls \in SeqsUpTo(pool, n)}

\* lines of every kind of the grammar: blank, comment, assignment (with
\* blanks, with "=" in the value, with an empty value, ending in a carriage
\* return), no "=", empty key, an integer index as key, a key that is a
\* member of the config, structured values
LinePool ==
  {<<>>, <<"#", " ", "c", "=", "1">>, <<"A", "=", "1">>, <<" ", "A", " ", "=", " ", "x", "=", "y", " ">>, <<"A">>, <<"=", "5">>, <<"7", "=", "T", "R", "U", "E", "\r">>,
   <<"B", "=", "1", ".", "5">>, <<"E", "=">>, <<"e", "r", "r", "o", "r", "s", "=", "1">>, <<"g", "e", "t", "=", "1">>, <<"T", "=", "[", "\"", "1", "2", ":", "3", "0", "\"", "]">>, <<"Q", "=", "[", "x">>}

SchemaLinePool == {<<"A", "=", "1">>, <<"B", "=", "1", ".", "5">>, <<"S", "=", "a", "b">>, <<"X", "=", "1">>, <<"O", "=", "{", "\"", "t", "o", "S", "t", "r", "i", "n", "g", "\"", ":", "1", "}">>}

CallerLinePool ==
  {<<"A", "=", "1">>, <<"S", "=", "T", "R", "U", "E">>, <<"D", "=", "2", "0", "2", "4", "-", "0", "1", "-", "0", "5">>, <<"T", "=", "[", "\"", "1", "2", ":", "3", "0", "\"", "]">>, <<"L", "=", "[", "\"", "t", "r", "u", "e", "\"", "]">>,
   <<"P", "=", "{", "\"", "a", "\"", ":", "1", "}">>, <<"O", "=", "{", "\"", "t", "o", "S", "t", "r", "i", "n", "g", "\"", ":", "1", "}">>, <<"H", "=", "1", "2", ":", "3", "0">>}

NoFlags(name, type, required, min, max) == Rule(name, type, required, min, max, FALSE, FALSE)

\* rules that give two errors (A=1, B=1.5, S=ab), one, or none; a required and
\* an optional rule for keys no line defines; a name that Object.prototype
\* has; a type that is no type tag; a comparison with a structured value
RulePool ==
  {NoFlags(<<"A">>, <<"i", "n", "t", "e", "g", "e", "r">>, FALSE, Num(2), Num(0)),
   NoFlags(<<"B">>, <<"i", "n", "t", "e", "g", "e", "r">>, TRUE, Num(2), Undefined),
   Rule(<<"S">>, <<"s", "t", "r", "i", "n", "g">>, FALSE, Num(3), Undefined, FALSE, TRUE),
   NoFlags(<<"Z">>, <<"s", "t", "r", "i", "n", "g">>, TRUE, Undefined, Undefined),
   NoFlags(<<"Y">>, <<"i", "n", "t", "e", "g", "e", "r">>, FALSE, Undefined, Undefined),
   NoFlags(<<"c", "o", "n", "s", "t", "r", "u", "c", "t", "o", "r">>, <<"s", "t", "r", "i", "n", "g">>, TRUE, Undefined, Undefined),
   NoFlags(<<"A">>, <<"n", "u", "m", "b", "e", "r">>, FALSE, Undefined, Undefined),
   NoFlags(<<"O">>, <<"f", "l", "o", "a", "t">>, TRUE, Num(1), Undefined)}

\* what is no call
NoCall == [t |-> "none"]

\* the fallback a caller hands to a getter
Fallback == [t |-> "fallback"]

NoConfig == [status |-> "none", props |-> <<>>, rawValues |-> <<>>]

InitLoad(files, schemas) ==
  /\ pc = "start"
  /\ raw \in files
  /\ schema \in schemas
  /\ config = NoConfig
  /\ ops = 0
  /\ last = NoCall
  /\ vArgs = NoCall
  /\ vOut = NoCall

\* a file and a schema
Init == InitLoad(Files(SchemaLinePool, MaxSchemaLines), SeqsUpTo(RulePool, MaxRules))

\* a file, and the default schema []
InitParse == InitLoad(Files(LinePool, MaxLines), {<<>>})

InitCaller == InitLoad(Files(CallerLinePool, MaxCallerLines), {<<>>})

\* the values handed to validateValue alone: the halves from -1 to
\* MaxBound + 1, and a value of every other shape
NumberPool == {Dec(5 * j, 1) : j \in (0 - 2)..(2 * MaxBound + 2)}

ValuePool ==
  NumberPool \cup
  {Undefined, Null, Str(<<>>), Str(<<"a", "b", "c">>), Str(<<"A", "B">>), Str(<<"2">>), Str(<<"1", "2", ":", "3", "0">>),
   Str(<<"2", "4", ":", "0", "0">>), Str(<<"2", "3", ":", "5", "9">>), Str(<<"1", "2", ":", "6", "0">>), Str(<<"9", ":", "5">>), Str(<<"2", "0", "2", "4", "-", "0", "1", "-", "0", "5">>), Bool(TRUE), Bool(FALSE), Arr(<<>>),
   Arr(<<Num(20)>>), Arr(<<Str(<<"1", "2", ":", "3", "0">>)>>), Obj(<<>>),
   Obj(<< <<ToStringKey, Num(1)>> >>), Fn}

BoundPool == {Undefined} \cup {Num(i) : i \in 0..MaxBound}

TypeTags ==
  {<<"a", "r", "r", "a", "y">>, <<"b", "o", "o", "l", "e", "a", "n">>, <<"d", "a", "t", "e">>, <<"f", "l", "o", "a", "t">>, <<"i", "n", "t", "e", "g", "e", "r">>, <<"o", "b", "j", "e", "c", "t">>, <<"s", "t", "r", "i", "n", "g">>, <<"t", "i", "m", "e">>}

\* rules of every type tag and of a type that is none, with and without
\* bounds; the case flags vary on the string rules
RulePoolV ==
  {Rule(<<"N">>, type, required, min, max, lowercase, uppercase) :
     type \in TypeTags \cup {<<"n", "u", "m", "b", "e", "r">>}, required \in BOOLEAN,
     min \in BoundPool, max \in BoundPool,
     lowercase \in BOOLEAN, uppercase \in BOOLEAN}

Args(key, value, rule) == [t |-> "args", key |-> key, value |-> value, rule |-> rule]

\* a value and a rule for validateValue
InitValidate ==
  /\ pc = "validate"
  /\ raw = <<>>
  /\ schema = <<>>
  /\ config = NoConfig
  /\ ops = 0
  /\ last = NoCall
  /\ vArgs \in {Args(rule.name, value, rule) :
                  value \in ValuePool,
                  rule \in {r \in RulePoolV :
                              r.type = <<"s", "t", "r", "i", "n", "g">> \/ (~r.lowercase /\ ~r.uppercase)}}
  /\ vOut = NoCall

----------------------------------------------------------------------------
(* Actions *)

\* the call of loadEnvFile
Load ==
  /\ pc = "start"
  /\ config' = loadEnvFile(raw, schema)
  /\ pc' = config'.status
  /\ UNCHANGED <<raw, schema, ops, last, vArgs, vOut>>

\* the keys a caller reads and writes: the enumerable keys of the config, a
\* member of it, a key that no file defines and a member of Object.prototype
CallerKeys ==
  {EnumerableKeys(config.props)[i] : i \in 1..Len(EnumerableKeys(config.props))}
    \cup {ErrorsKey, <<"Z">>, <<"c", "o", "n", "s", "t", "r", "u", "c", "t", "o", "r">>}

\* config[key] = value by the caller
Assign ==
  /\ pc = "returned"
  /\ ops < MaxOps
  /\ \E key \in CallerKeys :
       config' = [config EXCEPT !.props = AssignProp(config.props, key, Num(9))]
  /\ ops' = ops + 1
  /\ last' = NoCall
  /\ UNCHANGED <<pc, raw, schema, vArgs, vOut>>

\* delete config[key] by the caller
Delete ==
  /\ pc = "returned"
  /\ ops < MaxOps
  /\ \E key \in CallerKeys :
       config' = [config EXCEPT !.props = DeleteProp(config.props, key)]
  /\ ops' = ops + 1
  /\ last' = NoCall
  /\ UNCHANGED <<pc, raw, schema, vArgs, vOut>>

Called(getter, key, out) == [t |-> "call", getter |-> getter, key |-> key, out |-> out]

\* a call of an accessor, which closes over the config
Call(getter) ==
  /\ pc = "returned"
  /\ \E key \in CallerKeys :
       last' = Called(getter, key,
                 CASE getter = "get" -> get(config.props, key, Fallback)
                   [] getter = "getString" -> getString(config.props, key, Fallback)
                   [] getter = "getBoolean" -> getBoolean(config.props, key, Fallback)
                   [] getter = "getDate" -> getDate(config.props, key, Fallback)
                   [] getter = "getTime" -> getTime(config.props, key, Fallback)
                   [] getter = "getArray" -> getArray(config.props, key, Fallback)
                   [] getter = "getObject" -> getObject(config.props, key, Fallback))
  /\ UNCHANGED <<pc, raw, schema, config, ops, vArgs, vOut>>

CallGet == Call("get")
CallGetString == Call("getString")
CallGetBoolean == Call("getBoolean")
CallGetDate == Call("getDate")
CallGetTime == Call("getTime")
CallGetArray == Call("getArray")
CallGetObject == Call("getObject")

\* the call of validateValue
Validate ==
  /\ pc = "validate"
  /\ vOut = NoCall
  /\ vOut' = validateValue(vArgs.key, vArgs.value, vArgs.rule)
  /\ UNCHANGED <<pc, raw, schema, config, ops, last, vArgs>>

Next == Load

NextCaller ==
  \/ Load
  \/ Assign
  \/ Delete
  \/ CallGet
  \/ CallGetString
  \/ CallGetBoolean
  \/ CallGetDate
  \/ CallGetTime
  \/ CallGetArray
  \/ CallGetObject

\* loading a file under a schema
Spec == Init /\ [][Next]_vars

\* loading a file under the default schema
SpecParse == InitParse /\ [][Next]_vars

\* loading a file and using the config
SpecCaller == InitCaller /\ [][NextCaller]_vars

NextValidate == Validate

\* validateValue on a value and a rule
SpecValidate == InitValidate /\ [][NextValidate]_vars

----------------------------------------------------------------------------
(* What the claims speak of *)

Range(q) == {q[i] : i \in 1..Len(q)}

\* whether sub occurs in text
Contains(text, sub) ==
  \E i \in 1..(Len(text) - Len(sub) + 1) : SubSeq(text, i, i + Len(sub) - 1) = sub

\* a line of the grammar's form key "=" value with a non-empty key
IsAssignment(line) ==
  /\ Trim(line) # <<>>
  /\ Head(Trim(line)) # "#"
  /\ IndexOf(Trim(line), "=") > 1

AssignmentKey(line) == Trim(SubSeq(Trim(line), 1, IndexOf(Trim(line), "=") - 1))

AssignmentText(line) ==
  Trim(SubSeq(Trim(line), IndexOf(Trim(line), "=") + 1, Len(Trim(line))))

\* the assignment lines of the file, in order
Assignments == SelectSeq(SplitLines(raw), IsAssignment)

\* the last assignment line of a key
LastAssignment(key) ==
  Assignments[CHOOSE i \in 1..Len(Assignments) :
                /\ AssignmentKey(Assignments[i]) = key
                /\ \A j \in (i + 1)..Len(Assignments) : AssignmentKey(Assignments[j]) # key]

IsAssignmentOf(key, line) == IsAssignment(line) /\ AssignmentKey(line) = key

\* the lines from the i-th on, without the assignment lines of the key that
\* follow an earlier one
RECURSIVE WithoutLater(_, _, _)
WithoutLater(lines, key, i) ==
  IF i > Len(lines) THEN <<>>
  ELSE (IF /\ IsAssignmentOf(key, lines[i])
           /\ \E j \in 1..(i - 1) : IsAssignmentOf(key, lines[j])
        THEN <<>> ELSE <<lines[i]>>)
       \o WithoutLater(lines, key, i + 1)

\* the keys, in the order of enumeration, of the file that has only the first
\* assignment line of the key
KeysOfFirstOnly(key) ==
  OwnKeys(ParseLines([rawValues |-> <<>>, descriptors |-> <<>>],
                     WithoutLater(SplitLines(raw), key, 1)).rawValues)

\* the errors of the rules, rule by rule in the order of the schema
RECURSIVE ErrorsInOrder(_, _)
ErrorsInOrder(rules, values) ==
  IF rules = <<>> THEN <<>>
  ELSE validateValue(Head(rules).name, Get(values, Head(rules).name), Head(rules)).errors
         \o ErrorsInOrder(Tail(rules), values)

ConfigErrors == Read(config.props, ErrorsKey)
ConfigHasErrors == Read(config.props, HasErrorsKey)

\* C1: for every file and every schema loadEnvFile returns a config; a rule
\* that is not required and whose name is no key of the file stops nothing
\* and adds no error.
C1_LoadAlwaysReturns ==
  pc # "start" =>
    /\ config.status = "returned"
    /\ ConfigErrors =
         Arr(ErrorsInOrder(
               SelectSeq(schema, LAMBDA r : r.required \/ HasKey(config.rawValues, r.name)),
               config.rawValues))

\* C2: once loadEnvFile has returned, no write, delete or addition by a
\* caller changes the keys of the config or the value read for a key.
C2_ConfigImmutable ==
  [][config.status = "returned" =>
       /\ OwnKeys(config'.props) = OwnKeys(config.props)
       /\ \A k \in Range(OwnKeys(config.props)) :
            Read(config'.props, k) = Read(config.props, k)]_vars

TypedGetters == {"getString", "getBoolean", "getDate", "getTime", "getArray", "getObject"}

\* the stored value has the shape the getter asks for
ShapeMatches(getter, val) ==
  CASE getter = "getString" -> val.t = "string"
    [] getter = "getBoolean" ->
         \/ val.t = "boolean"
         \/ (val.t = "string" /\ ToLowerCase(val.s) \in {<<"t", "r", "u", "e">>, <<"f", "a", "l", "s", "e">>})
    [] getter = "getDate" -> val.t = "string" /\ DateParse(val.s).valid
    [] getter = "getTime" ->
         /\ val.t = "string"
         /\ IsTimeText(val.s)
         /\ DigitsVal(SubSeq(val.s, 1, 2)) <= 23
         /\ DigitsVal(SubSeq(val.s, 4, 5)) <= 59
    [] getter = "getArray" -> val.t = "array"
    [] getter = "getObject" -> val.t = "object"

\* C3: a typed getter never throws, and gives the fallback whenever the
\* stored value has not the shape it asks for or the key is absent.
C3_TypedGettersFallBack ==
  (last.t = "call" /\ last.getter \in TypedGetters) =>
    /\ ~last.out.threw
    /\ ~ShapeMatches(last.getter, Read(config.props, last.key)) => last.out.v = Fallback

\* C4: the keys of the resolved mapping are the keys of the assignment lines
\* with a non-empty key, the key being the trimmed text before the first "="
\* (blank lines, comments, lines with an empty key and lines without "=" add
\* none), and each value comes from the trimmed text after the first "=".
C4_OnlyAssignmentsAddKeys ==
  pc # "start" =>
    /\ {e.k : e \in Range(config.rawValues)} = {AssignmentKey(l) : l \in Range(Assignments)}
    /\ \A e \in Range(config.rawValues) :
         \E l \in Range(Assignments) :
           AssignmentKey(l) = e.k /\ TypedValue(AssignmentText(l)) = e.v

\* C5: a key on several assignment lines resolves, in the mapping the schema
\* is checked against and on the config, to the typed value of the last of
\* them, and enumerates where its first line put it.
C5_LastLineWins ==
  config.status = "returned" =>
    \A k \in {AssignmentKey(l) : l \in Range(Assignments)} :
      Cardinality({i \in 1..Len(Assignments) : AssignmentKey(Assignments[i]) = k}) > 1 =>
        /\ Get(config.rawValues, k) = TypedValue(AssignmentText(LastAssignment(k)))
        /\ Read(config.props, k) = TypedValue(AssignmentText(LastAssignment(k)))
        /\ OwnKeys(config.rawValues) = KeysOfFirstOnly(k)

\* C6: the errors of the config are the errors validateValue gives for each
\* rule, rule after rule in the order of the schema, none dropped and none
\* merged; every error is the error of a rule, so a key that no rule names
\* gives none; and hasErrors is true exactly when there is an error.
C6_ErrorsInSchemaOrder ==
  config.status = "returned" =>
    /\ ConfigErrors = Arr(ErrorsInOrder(schema, config.rawValues))
    /\ \A e \in Range(ConfigErrors.a) :
         \E r \in Range(schema) : Contains(e.s, Quoted(r.name))
    /\ ConfigHasErrors = Bool(ConfigErrors.a # <<>>)

\* a load under two rules, the first of which gives two errors and the
\* second one, of a file with a key that no rule names
C6_Witness ==
  /\ config.status = "returned"
  /\ Len(schema) = 2
  /\ Len(validateValue(schema[1].name, Get(config.rawValues, schema[1].name), schema[1]).errors) = 2
  /\ Len(ConfigErrors.a) = 3
  /\ ConfigErrors.a[3] # ConfigErrors.a[1]
  /\ HasKey(config.rawValues, <<"X">>)
  /\ \A r \in Range(schema) : r.name # <<"X">>

\* C7: a required rule whose key the file lacks gives the config exactly one
\* error, the missing-value error that names the key, and hasErrors true.
C7_RequiredMissing ==
  config.status = "returned" =>
    \A r \in Range(schema) :
      (r.required /\ ~HasKey(config.rawValues, r.name)) =>
        /\ ConfigHasErrors = Bool(TRUE)
        /\ \A e \in Range(ConfigErrors.a) :
             Contains(e.s, Quoted(r.name)) => e = MissingMsg(r.name)
        /\ Cardinality({i \in 1..Len(ConfigErrors.a) : ConfigErrors.a[i] = MissingMsg(r.name)})
             = Cardinality({i \in 1..Len(schema) : schema[i].name = r.name})

\* C8: an integer rule with min and max gives a present value that is no
\* number exactly one error, the type error.
C8_TypeErrorOnly ==
  (/\ vOut # NoCall
   /\ vArgs.rule.type = <<"i", "n", "t", "e", "g", "e", "r">>
   /\ IsSet(vArgs.rule.min)
   /\ IsSet(vArgs.rule.max)
   /\ ~IsMissing(vArgs.value)
   /\ vArgs.value.t \in {"string", "boolean", "array", "object"}) =>
    vOut = Returned(<<IntegerMsg(vArgs.key)>>)

\* what the claim expects of a number under an integer or float rule: the
\* type error of a fraction under an integer rule, then each bound error
BoundsExpected(key, v, rule) ==
  (IF rule.type = <<"i", "n", "t", "e", "g", "e", "r">> /\ v.e # 0 THEN <<IntegerMsg(key)>> ELSE <<>>)
    \o (IF rule.min.t = "number" /\ v.m * Pow10(rule.min.e) < rule.min.m * Pow10(v.e)
        THEN <<MinMsg(key, rule.min)>> ELSE <<>>)
    \o (IF rule.max.t = "number" /\ v.m * Pow10(rule.max.e) > rule.max.m * Pow10(v.e)
        THEN <<MaxMsg(key, rule.max)>> ELSE <<>>)

\* C9: for an integer or float rule and a number v, "must be >= min" is
\* given exactly when min is set and v < min, "must be <= max" exactly when
\* max is set and v > max, neither in between, and each check fires whether
\* or not the others do.
C9_BoundsBothWays ==
  (/\ vOut # NoCall
   /\ vArgs.rule.type \in {<<"i", "n", "t", "e", "g", "e", "r">>, <<"f", "l", "o", "a", "t">>}
   /\ vArgs.value.t = "number") =>
    vOut = Returned(BoundsExpected(vArgs.key, vArgs.value, vArgs.rule))

\* a fraction above max under an integer rule: the type error and the bound
\* error together
C9_Witness ==
  /\ vOut # NoCall
  /\ vArgs.rule.type = <<"i", "n", "t", "e", "g", "e", "r">>
  /\ vArgs.rule.min = Num(1)
  /\ vArgs.rule.max = Num(2)
  /\ vArgs.value = Dec(25, 1)
  /\ vOut.errors = <<IntegerMsg(vArgs.key), MaxMsg(vArgs.key, Num(2))>>

HasMember(name, value) ==
  /\ HasKey(config.props, name)
  /\ ~Get(config.props, name).enumerable
  /\ Read(config.props, name).t = value.t

\* C10: for every file the enumerable keys of the config are the keys parsed
\* from the file, each with its parsed value, and errors, hasErrors and the
\* getters are there and not enumerable, also when a key of the file has the
\* name of one of them.
C10_EnumerableDataKeys ==
  pc # "start" =>
    /\ config.status = "returned"
    /\ EnumerableKeys(config.props) = OwnKeys(config.rawValues)
    /\ \A k \in Range(OwnKeys(config.rawValues)) :
         Read(config.props, k) = Get(config.rawValues, k)
    /\ HasMember(ErrorsKey, Arr(<<>>))
    /\ HasMember(HasErrorsKey, Bool(FALSE))
    /\ \A n \in Range(AccessorNames) : HasMember(n, Fn)

\* the text has the form of two digits, a colon and two digits
HasTimeForm(s) ==
  /\ Len(s) = 5
  /\ \A i \in {1, 2, 4, 5} : s[i] \in Digits
  /\ s[3] = ":"

\* the hour of a text of that form is 0..23 and its minute 0..59
TimeInRange(s) ==
  /\ DigitVal(s[1]) * 10 + DigitVal(s[2]) \in 0..23
  /\ DigitVal(s[4]) * 10 + DigitVal(s[5]) \in 0..59

\* the errors of a present value under a time rule: none for a text of the
\* form with hour and minute in range, the range error alone for a text of
\* the form out of range, the format error alone for any other text
TimeExpected(key, value) ==
  IF ~HasTimeForm(value.s) THEN <<TimeFormatMsg(key)>>
  ELSE IF ~TimeInRange(value.s) THEN <<TimeRangeMsg(key)>>
  ELSE <<>>

\* C11: for a time rule and a present value, validateValue never throws; it
\* returns no error exactly when the value is a text of the form two digits,
\* colon, two digits with hour in 0..23 and minute in 0..59; a text of
\* another form gets the format error alone, a text of the form out of range
\* the range error alone, and the two messages differ.
C11_TimeRule ==
  (/\ vOut # NoCall
   /\ vArgs.rule.type = <<"t", "i", "m", "e">>
   /\ ~IsMissing(vArgs.value)) =>
    /\ ~vOut.threw
    /\ TimeFormatMsg(vArgs.key) # TimeRangeMsg(vArgs.key)
    /\ IF TypeOf(vArgs.value) = "string"
       THEN vOut.errors = TimeExpected(vArgs.key, vArgs.value)
       ELSE vOut.errors # <<>>

====
